---- MODULE Spec2Model ----
(***************************************************************************)
(* A model of lat_timing/weightman.py: WeightedData (weights attached to   *)
(* the photon table of a TimedData object from a sky-model map file or     *)
(* from an empirical radial model), its checkpoint loader WeightedDataX,   *)
(* get_binned_exposure, and WeightModel.__call__.                          *)
(***************************************************************************)
EXTENDS Integers, Sequences, FiniteSets, TLC

(***************************************************************************)
(* Floating-point values.  A float is a pair <<n, d>>: a reduced fraction  *)
(* n/d with d > 0, or one of the IEEE specials with d = 0.                 *)
(***************************************************************************)
NaN == <<0, 0>>
PosInf == <<1, 0>>
NegInf == <<-1, 0>>
Zero == <<0, 1>>
One == <<1, 1>>

\* the missing "weight" column of a photon record
Unset == <<>>

Abs(x) == IF x < 0 THEN -x ELSE x

Sign(x) == IF x < 0 THEN -1 ELSE IF x = 0 THEN 0 ELSE 1

RECURSIVE Gcd(_, _)
Gcd(x, y) == IF y = 0 THEN x ELSE Gcd(y, x % y)

\* the float n/d, d # 0, in reduced form
Frac(n, d) ==
    LET g == Gcd(Abs(n), Abs(d))
    IN  IF d < 0 THEN <<(-n) \div g, (-d) \div g>> ELSE <<n \div g, d \div g>>

IsNaN(x) == x = NaN

IsFinite(x) == x[2] # 0

\* x < y of IEEE floats: false when either is not-a-number
FLess(x, y) ==
    IF IsNaN(x) \/ IsNaN(y) THEN FALSE
    ELSE IF x[2] = 0 /\ y[2] = 0 THEN x[1] < y[1]
    ELSE IF x[2] = 0 THEN x[1] < 0
    ELSE IF y[2] = 0 THEN y[1] > 0
    ELSE x[1] * y[2] < y[1] * x[2]

\* x * y of IEEE floats
FMul(x, y) ==
    IF IsNaN(x) \/ IsNaN(y) THEN NaN
    ELSE IF x[2] = 0 \/ y[2] = 0
         THEN (IF x[1] = 0 \/ y[1] = 0 THEN NaN
               ELSE <<Sign(x[1]) * Sign(y[1]), 0>>)
    ELSE Frac(x[1] * y[1], x[2] * y[2])

\* x / y of numpy floats: division by zero gives an infinity or not-a-number
FDiv(x, y) ==
    IF IsNaN(x) \/ IsNaN(y) THEN NaN
    ELSE IF x[2] = 0 /\ y[2] = 0 THEN NaN
    ELSE IF x[2] = 0 THEN <<x[1] * (IF y[1] < 0 THEN -1 ELSE 1), 0>>
    ELSE IF y[2] = 0 THEN Zero
    ELSE IF y[1] = 0 THEN (IF x[1] = 0 THEN NaN ELSE <<Sign(x[1]), 0>>)
    ELSE Frac(x[1] * y[2], x[2] * y[1])

RECURSIVE FPow(_, _)
FPow(x, k) == IF k = 0 THEN One ELSE FMul(x, FPow(x, k - 1))

\* np.exp(np.log(q) * k) for an integer k >= 0
ExpLogTimes(q, k) ==
    IF IsNaN(q) THEN NaN
    ELSE IF q = NegInf \/ (IsFinite(q) /\ q[1] < 0) THEN NaN   \* log of a negative
    ELSE IF q = Zero THEN (IF k = 0 THEN NaN ELSE Zero)       \* -inf * k
    ELSE IF q = PosInf THEN (IF k = 0 THEN NaN ELSE PosInf)   \* +inf * k
    ELSE FPow(q, k)

(***************************************************************************)
(* WeightModel.__call__ (the model's "evaluate").  Radii are perfect       *)
(* squares, so that np.sqrt is exact; the triples hold numpy floats, as    *)
(* create_model_dict produces them (np.mean), so a division by zero gives  *)
(* an infinity or not-a-number and raises nothing.                         *)
(***************************************************************************)
ClampBand == 13
MaxWeight == <<99, 100>>

Min(x, y) == IF x < y THEN x ELSE y

Sqrt(r) == CHOOSE s \in 0..r : s * s = r

\* Python's min(x, y): y when y < x, else x (so x when y is not-a-number)
PyMin(x, y) == IF FLess(y, x) THEN y ELSE x

Returned(v) == [exc |-> "none", val |-> v]

Raised(e) == [exc |-> e, val |-> NaN]

\* a mutant of ModelBand: a band uses its own parameters up to band 15
ModelBand_Own(i) == Min(i, 15)

\* the band whose parameters band i uses: self.dd[min(i,13)]
ModelBand(i) == Min(i, ClampBand)

\* a mutant of Evaluate: the second regime without the 0.99 limit
Evaluate_NoLimit(dd, i, r) ==
    IF ModelBand(i) \notin DOMAIN dd THEN Raised("KeyError")
    ELSE LET a == dd[ModelBand(i)][1]
             b == dd[ModelBand(i)][2]
             c == dd[ModelBand(i)][3]
             sr == Sqrt(r)
         IN  IF c = Zero THEN Returned(Zero)
             ELSE IF r <= 1
                  THEN Returned(FMul(a, ExpLogTimes(FDiv(b, a), sr)))
             ELSE Returned(FMul(FDiv(FMul(b, b), c), ExpLogTimes(FDiv(c, b), sr)))

\* a mutant of Evaluate: a third coefficient of 0 is not treated apart
Evaluate_NoKluge(dd, i, r) ==
    IF ModelBand(i) \notin DOMAIN dd THEN Raised("KeyError")
    ELSE LET a == dd[ModelBand(i)][1]
             b == dd[ModelBand(i)][2]
             c == dd[ModelBand(i)][3]
             sr == Sqrt(r)
         IN  IF r <= 1
             THEN Returned(FMul(a, ExpLogTimes(FDiv(b, a), sr)))
             ELSE LET beta == FDiv(FMul(b, b), c)
                  IN  Returned(PyMin(MaxWeight,
                                     FMul(beta, ExpLogTimes(FDiv(c, b), sr))))

\* WeightModel.__call__(i, r)
Evaluate(dd, i, r) ==
    IF ModelBand(i) \notin DOMAIN dd THEN Raised("KeyError")
    ELSE LET a == dd[ModelBand(i)][1]
             b == dd[ModelBand(i)][2]
             c == dd[ModelBand(i)][3]
             sr == Sqrt(r)
         IN  IF c = Zero THEN Returned(Zero)                     \* kluge
             ELSE IF r <= 1
                  THEN Returned(FMul(a, ExpLogTimes(FDiv(b, a), sr)))
             ELSE LET beta == FDiv(FMul(b, b), c)      \* alpha = log(c/b)
                  IN  Returned(PyMin(MaxWeight,
                                     FMul(beta, ExpLogTimes(FDiv(c, b), sr))))

(***************************************************************************)
(* The sky-model lookup of add_weights_from_skymodel.                      *)
(***************************************************************************)
NBands == 32
LastBand == 31

\* the table's dtype np.float32, scaled down: the multiples of 1/F32Scale
F32Scale == 8

\* the cast to np.float32: round to nearest, ties to even
Float32(x) ==
    IF ~IsFinite(x) THEN x
    ELSE LET s == x[1] * F32Scale
             fl == s \div x[2]
             rem == s % x[2]
             k == IF 2 * rem < x[2] THEN fl
                  ELSE IF 2 * rem > x[2] THEN fl + 1
                  ELSE IF fl % 2 = 0 THEN fl ELSE fl + 1
         IN  Frac(k, F32Scale)

\* healpy.ring2nest at nside 2 (at nside 1 the two orderings coincide)
Ring2NestTable ==
    << 3,  7, 11, 15,  2,  1,  6,  5, 10,  9, 14, 13,
      19,  0, 23,  4, 27,  8, 31, 12, 17, 22, 21, 26,
      25, 30, 29, 18, 16, 35, 20, 39, 24, 43, 28, 47,
      34, 33, 38, 37, 42, 41, 46, 45, 32, 36, 40, 44 >>

Ring2Nest(nside, pix) == IF nside = 1 THEN pix ELSE Ring2NestTable[pix + 1]

\* int(np.log2(q)) for q >= 1
RECURSIVE ILog2(_)
ILog2(q) == IF q <= 1 THEN 0 ELSE 1 + ILog2(q \div 2)

RECURSIVE Pow2(_)
Pow2(k) == IF k = 0 THEN 1 ELSE 2 * Pow2(k - 1)

\* a mutant of RightShift: the shift rounds to the nearest instead of down
RightShift_Round(pix, bits) ==
    IF bits = 0 THEN pix ELSE (pix + Pow2(bits - 1)) \div Pow2(bits)

\* np.right_shift(pix, bits)
RightShift(pix, bits) == pix \div Pow2(bits)

\* to_shift = 2*int(np.log2(self.nside/nside_wt))
ToShift(nside, nside_wt) == 2 * ILog2(nside \div nside_wt)

\* the photon's pixel id in NEST ordering
PhotonPix(nside, nest, pix) == IF nest THEN pix ELSE Ring2Nest(nside, pix)

\* the photon's pixel id at the resolution of the weight map
ShiftedPix(nside, nest, nside_wt, pix) ==
    RightShift(PhotonPix(nside, nest, pix), ToShift(nside, nside_wt))

Range(seq) == {seq[j] : j \in 1..Len(seq)}

\* np.isin(shifted_pix, wt_pix), negated
Bad(nside, nest, wtd, pix) ==
    ShiftedPix(nside, nest, wtd.nside, pix) \notin Range(wtd.pixels)

\* np.searchsorted(wt_pix, v): binary search for the leftmost place of v
RECURSIVE BinSearch(_, _, _, _)
BinSearch(arr, v, lo, hi) ==
    IF lo >= hi THEN lo
    ELSE LET mid == lo + ((hi - lo) \div 2)
         IN  IF arr[mid + 1] < v THEN BinSearch(arr, v, mid + 1, hi)
             ELSE BinSearch(arr, v, lo, mid)

SearchSorted(arr, v) == BinSearch(arr, v, 0, Len(arr))

\* a mutant of Sentinel: the index set for photons outside the region is 0
Sentinel_Zero(nside_wt) == 0

\* shifted_pix[bad] = 12*nside_wt**2, beyond every pixel index
Sentinel(nside_wt) == 12 * nside_wt * nside_wt

\* the 0-based column of the table a photon reads
WeightIndex(nside, nest, wtd, pix) ==
    SearchSorted(wtd.pixels,
                 IF Bad(nside, nest, wtd, pix) THEN Sentinel(wtd.nside)
                 ELSE ShiftedPix(nside, nest, wtd.nside, pix))

\* a mutant of BandIndex: the band wraps around instead of stopping at 31
BandIndex_Wrap(band) == band % NBands

\* band_index = np.fmin(31, band)
BandIndex(band) == Min(LastBand, band)

\* one band's array of the file: t, or t.T[0] of a 2-D array
BandRow(t) == IF t.ndim = 2 THEN [j \in 1..Len(t.data) |-> t.data[j][1]] ELSE t.data

\* wts: 32 rows of len(wt_pix)+1 float32 entries, not-a-number where the
\* file has no weights and in the appended last column
Wts(wtd) ==
    [k \in 0..(NBands - 1) |->
        [j \in 1..(Len(wtd.pixels) + 1) |->
            IF k \in DOMAIN wtd.weights /\ j <= Len(wtd.pixels)
            THEN Float32(BandRow(wtd.weights[k])[j])
            ELSE NaN]]

\* the "weight" column the lookup assigns
LookupWeights(photons, nside, nest, wtd) ==
    [j \in 1..Len(photons) |->
        Wts(wtd)[BandIndex(photons[j].band)]
                [WeightIndex(nside, nest, wtd, photons[j].pixel) + 1]]

\* a mutant of SetWeights: the photons left without a number are dropped
SetWeights_DropUnweighted(photons, column) ==
    LET Weighted(p) == ~IsNaN(p.weight)
    IN  SelectSeq([j \in 1..Len(photons) |-> [photons[j] EXCEPT !.weight = column[j]]],
                  Weighted)

\* photons.loc[:,'weight'] = column
SetWeights(photons, column) ==
    [j \in 1..Len(photons) |-> [photons[j] EXCEPT !.weight = column[j]]]

(***************************************************************************)
(* get_binned_exposure                                                     *)
(***************************************************************************)
RECURSIVE SumSeq(_)
SumSeq(seq) == IF seq = <<>> THEN 0 ELSE Head(seq) + SumSeq(Tail(seq))

\* a mutant of Binned: the trailing remainder is kept as a last, short group
Binned_KeepRemainder(e, n) ==
    [k \in 1..((Len(e) + n - 1) \div n) |->
        SumSeq(SubSeq(e, (k - 1) * n + 1, Min(k * n, Len(e))))]

\* m = len(e)//n * n;  e[:m].reshape(m//n, n).sum(axis=1)
Binned(e, n) ==
    LET m == (Len(e) \div n) * n
        head == SubSeq(e, 1, m)
    IN  [k \in 1..(m \div n) |-> SumSeq([j \in 1..n |-> head[(k - 1) * n + j]])]

(***************************************************************************)
(* The inputs: the files on disk and the upstream TimedData object.        *)
(***************************************************************************)
MaxPhotons == 2
MaxObjs == 2
MaxBins == 4
MaxLen == 5
MaxRoot == 3
MaxFit == 3
MaxOrder == 3

None == "None"

\* test_elements of add_weights_from_skymodel
RequiredKeys ==
    {"energy_bins", "pixels", "weights", "nside", "model_name", "radius",
     "order", "roi_name"}

\* the keys the verbose report reads
ReportKeys == {"source_lb", "source_name"}

Arr1(vals) == [ndim |-> 1, data |-> vals]

Arr2(vals) == [ndim |-> 2, data |-> [j \in 1..Len(vals) |-> <<vals[j]>>]]

\* the pickled weight maps; "absent" names no file
MapFiles ==
    [mapA |-> [exists |-> TRUE, keys |-> RequiredKeys \cup ReportKeys,
               nside |-> 1, pixels |-> <<1, 4, 9>>,
               weights |-> (2 :> Arr1(<<Frac(7, 10), Frac(1, 4), Frac(1, 2)>>)
                            @@ 31 :> Arr2(<<Frac(1, 8), Frac(3, 8), Frac(5, 8)>>))],
     mapB |-> [exists |-> TRUE, keys |-> RequiredKeys,
               nside |-> 2, pixels |-> <<3, 17, 40>>,
               weights |-> (0 :> Arr1(<<Frac(1, 16), Frac(1, 8), Frac(3, 4)>>)
                            @@ 2 :> Arr1(<<Frac(3, 8), Frac(7, 8), Frac(1, 3)>>)
                            @@ 31 :> Arr1(<<Frac(1, 2), Frac(1, 4), Frac(1, 8)>>))],
     mapS |-> [exists |-> TRUE, keys |-> RequiredKeys \ {"roi_name"},
               nside |-> 1, pixels |-> <<1, 4, 9>>,
               weights |-> (2 :> Arr1(<<Frac(7, 10), Frac(1, 4), Frac(1, 2)>>))],
     absent |-> [exists |-> FALSE, keys |-> {}, nside |-> 1, pixels |-> <<>>,
                 weights |-> <<>>]]

MapNames == DOMAIN MapFiles

Triple(a, b, c) == <<a, b, c>>

\* the pickled parameter dicts; "absent" names no file
ModelFiles ==
    [modelA |-> [exists |-> TRUE,
                 dd |-> [i \in 0..15 |->
                           IF i < 13 THEN Triple(Frac(1, 2), Frac(1, 4), Frac(1, 8))
                           ELSE IF i = 13
                                THEN Triple(Frac(9, 10), Frac(3, 10), Frac(6, 10))
                           ELSE Triple(Frac(1, 5), Frac(1, 10), Zero)]],
     modelB |-> [exists |-> TRUE,
                 dd |-> [i \in 0..2 |-> Triple(Frac(3, 4), Frac(1, 2), Frac(1, 4))]],
     absent |-> [exists |-> FALSE, dd |-> <<>>]]

ModelNames == DOMAIN ModelFiles

\* photons of the upstream table: band, pixel (at the dataset's nside) and radius
PhotonPool ==
    { [band |-> 2, pixel |-> 17, radius |-> 0],
      [band |-> 40, pixel |-> 20, radius |-> 9],
      [band |-> 0, pixel |-> 17, radius |-> 1] }

RECURSIVE SeqsUpTo(_, _)
SeqsUpTo(S, n) ==
    IF n = 0 THEN {<<>>}
    ELSE LET shorter == SeqsUpTo(S, n - 1)
         IN  shorter \cup {Append(q, x) : q \in {t \in shorter : Len(t) = n - 1}, x \in S}

\* the photon table of pool photons q, in time order, with no weight column
Table(q) ==
    [j \in 1..Len(q) |->
        [band |-> q[j].band, time |-> j, pixel |-> q[j].pixel,
         radius |-> q[j].radius, weight |-> Unset]]

Verbosity == {0, 1}

DataNsides == {2}

UpstreamEdges == <<0, 10, 20, 30>>

UpstreamExposure == <<3, 1, 2>>

\* the weighted rows a checkpoint holds
CheckpointRows ==
    << [band |-> 2, time |-> 1, pixel |-> 17, radius |-> 0, weight |-> Frac(3, 4)],
       [band |-> 40, time |-> 2, pixel |-> 20, radius |-> 4, weight |-> NaN] >>

CheckpointKeys == {"photon_data", "nside", "nest", "source_name", "edges", "exposure"}

\* a pickled checkpoint dict holding the given keys
Checkpoint(keys, exposure) ==
    [exists |-> TRUE, keys |-> keys, photon_data |-> CheckpointRows, nside |-> 2,
     nest |-> TRUE, source_name |-> "ckpt", edges |-> <<0, 10, 20, 30>>,
     exposure |-> exposure]

NoFile == [Checkpoint({}, <<>>) EXCEPT !.exists = FALSE]

\* the checkpoint files the loader is given
Checkpoints ==
    { Checkpoint(CheckpointKeys, <<5, 7, 11>>),
      Checkpoint(CheckpointKeys \ {"exposure"}, <<>>),
      Checkpoint(CheckpointKeys \ {"photon_data"}, <<5, 7, 11>>),
      NoFile }

(***************************************************************************)
(* The state: the upstream TimedData object, the DataFrames in memory, the *)
(* WeightedData / WeightedDataX instances constructed so far, a WeightModel *)
(* object, the last call with its outcome, and the files written.           *)
(***************************************************************************)
VARIABLES data, heap, objs, wm, last, disk

vars == <<data, heap, objs, wm, last, disk>>

\* the files written so far: the checkpoint of dump, the dict of create_model_dict
NoDisk == [ckpt |-> NoFile, model |-> ModelFiles.absent]

NoBins == [kind |-> "none", n |-> 0]

\* a call: the operation, the instance it acted on or made (0: none), its
\* arguments, the exception it raised ("none": it returned) and what it returned
Call(op, obj, args, exc, ret) ==
    [op |-> op, obj |-> obj, args |-> args, exc |-> exc, ret |-> ret]

Init ==
    /\ \E q \in SeqsUpTo(PhotonPool, MaxPhotons), v \in Verbosity,
          n \in DataNsides, nst \in BOOLEAN :
          /\ heap = <<Table(q)>>
          /\ data = [photon_data |-> 1, verbose |-> v, nside |-> n, nest |-> nst,
                     source_name |-> "src", edges |-> UpstreamEdges,
                     exposure |-> UpstreamExposure]
    /\ objs = <<>>
    /\ wm = ModelFiles.modelB.dd
    /\ last = Call("init", 0, <<>>, "none", <<>>)
    /\ disk = NoDisk

\* the photon table of instance o
PhotonData(o) == heap[o.photon_data]

(***************************************************************************)
(* WeightedData.__init__                                                   *)
(***************************************************************************)
\* a mutant of Source: a given model wins over a given map file
Source_ModelFirst(wfile, wmodel) ==
    IF wmodel # None THEN "model" ELSE IF wfile # None THEN "skymodel" ELSE "neither"

\* the if / elif / else of __init__
Source(wfile, wmodel) ==
    IF wfile # None THEN "skymodel" ELSE IF wmodel # None THEN "model" ELSE "neither"

\* a mutant of AllBad: the lookup gives up when any photon is outside
AllBad_Any(photons, nside, nest, wtd) ==
    \E j \in 1..Len(photons) : Bad(nside, nest, wtd, photons[j].pixel)

\* sum(bad)==len(bad)
AllBad(photons, nside, nest, wtd) ==
    Cardinality({j \in 1..Len(photons) : Bad(nside, nest, wtd, photons[j].pixel)})
        = Len(photons)

\* how add_weights_from_skymodel ends: "none", or the exception it raises
SkymodelExc(photons, verbose, nside, nest, wtd) ==
    IF ~wtd.exists THEN "AssertionError"
    ELSE IF ~(RequiredKeys \subseteq wtd.keys) THEN "AssertionError"
    ELSE IF verbose > 0 /\ ~(ReportKeys \subseteq wtd.keys) THEN "KeyError"
    ELSE IF AllBad(photons, nside, nest, wtd) THEN "No weights found"
    ELSE "none"

\* list(map(self.wm, df.band.values, df.radius.values))
ModelResults(photons, dd) ==
    [j \in 1..Len(photons) |-> Evaluate(dd, photons[j].band, photons[j].radius)]

\* the assignment of add_weights_from_model is under "if self.verbose>0"
ModelAssigns(verbose) == verbose > 0

\* how add_weights_from_model ends
ModelExc(photons, verbose, mf) ==
    IF ~mf.exists THEN "AssertionError"
    ELSE IF ModelAssigns(verbose)
            /\ \E j \in 1..Len(photons) : ModelResults(photons, mf.dd)[j].exc # "none"
         THEN "KeyError"
    ELSE "none"

\* the attributes __init__ sets
InitAttrs == {"data", "photon_data", "verbose", "nside", "nest", "source_name", "edges"}

\* a mutant of NewWeightedData: the instance takes a table of its own
NewWeightedData_Copy(wmodel) ==
    [cls |-> "WeightedData",
     attrs |-> InitAttrs \cup (IF wmodel # None THEN {"wm"} ELSE {}),
     photon_data |-> Len(heap) + 1, verbose |-> data.verbose, nside |-> data.nside,
     nest |-> data.nest, wm |-> wmodel, source_name |-> data.source_name,
     edges |-> data.edges, exposure |-> <<>>]

\* the instance __init__ leaves; wmodel names the model file of self.wm, if any
NewWeightedData(wmodel) ==
    [cls |-> "WeightedData",
     attrs |-> InitAttrs \cup (IF wmodel # None THEN {"wm"} ELSE {}),
     photon_data |-> data.photon_data, verbose |-> data.verbose, nside |-> data.nside,
     nest |-> data.nest, wm |-> wmodel, source_name |-> data.source_name,
     edges |-> data.edges, exposure |-> <<>>]

\* WeightedData(data, weight_filename=wfile, weight_model=wmodel)
Construct(wfile, wmodel) ==
    LET self == NewWeightedData(IF Source(wfile, wmodel) = "model" THEN wmodel ELSE None)
        photons == heap[data.photon_data]
        src == Source(wfile, wmodel)
        exc == IF src = "skymodel"
               THEN SkymodelExc(photons, data.verbose, data.nside, data.nest,
                                MapFiles[wfile])
               ELSE IF src = "model"
                    THEN ModelExc(photons, data.verbose, ModelFiles[wmodel])
               ELSE "No weight procedure"
        column == IF src = "skymodel"
                  THEN LookupWeights(photons, data.nside, data.nest, MapFiles[wfile])
                  ELSE [j \in 1..Len(photons) |->
                           ModelResults(photons, ModelFiles[wmodel].dd)[j].val]
        assigns == exc = "none" /\ (src = "skymodel" \/ ModelAssigns(data.verbose))
    IN  /\ Len(objs) < MaxObjs
        /\ heap' = IF assigns
                   THEN [heap EXCEPT ![self.photon_data] = SetWeights(photons, column)]
                   ELSE heap
        /\ objs' = IF exc = "none" THEN Append(objs, self) ELSE objs
        /\ last' = Call("construct", IF exc = "none" THEN Len(objs) + 1 ELSE 0,
                        <<wfile, wmodel>>, exc, <<>>)
        /\ UNCHANGED <<data, wm, disk>>

(***************************************************************************)
(* WeightedDataX.__init__                                                  *)
(***************************************************************************)
\* pd.DataFrame.from_dict(records): one row per record, in the list's order,
\* a column for every key; a record without "weight" gives no weight
FromDict(rows) ==
    [j \in 1..Len(rows) |->
        [band |-> rows[j].band, time |-> rows[j].time, pixel |-> rows[j].pixel,
         radius |-> rows[j].radius,
         weight |-> IF "weight" \in DOMAIN rows[j] THEN rows[j].weight ELSE Unset]]

\* how the loader ends
LoadExc(dd) ==
    IF ~dd.exists THEN "FileNotFoundError"
    ELSE IF "photon_data" \notin dd.keys THEN "KeyError"
    ELSE "none"

\* the instance the loader leaves: photon_data and whatever else the dict holds
NewWeightedDataX(dd) ==
    [cls |-> "WeightedDataX",
     attrs |-> dd.keys,
     photon_data |-> Len(heap) + 1, verbose |-> 0,
     nside |-> IF "nside" \in dd.keys THEN dd.nside ELSE 0,
     nest |-> IF "nest" \in dd.keys THEN dd.nest ELSE FALSE,
     wm |-> None,
     source_name |-> IF "source_name" \in dd.keys THEN dd.source_name ELSE None,
     edges |-> IF "edges" \in dd.keys THEN dd.edges ELSE <<>>,
     exposure |-> IF "exposure" \in dd.keys THEN dd.exposure ELSE <<>>]

\* WeightedDataX(filename), dd the content of the file
Load(dd) ==
    /\ Len(objs) < MaxObjs
    /\ IF LoadExc(dd) = "none"
       THEN /\ heap' = Append(heap, FromDict(dd.photon_data))
            /\ objs' = Append(objs, NewWeightedDataX(dd))
       ELSE UNCHANGED <<heap, objs>>
    /\ last' = Call("load", IF LoadExc(dd) = "none" THEN Len(objs) + 1 ELSE 0,
                    <<dd>>, LoadExc(dd), <<>>)
    /\ UNCHANGED <<data, wm, disk>>

(***************************************************************************)
(* get_binned_exposure(bins)                                               *)
(***************************************************************************)
\* bins: None, an array of bin edges, or an integer of ns
BinsArgs(ns) ==
    {NoBins, [kind |-> "array", n |-> 0]} \cup {[kind |-> "int", n |-> n] : n \in ns}

\* how get_binned_exposure ends on instance o
BinnedExc(o, bins) ==
    IF "exposure" \notin o.attrs THEN "AttributeError"
    ELSE IF bins.kind = "int" /\ bins.n = 0 THEN "ZeroDivisionError"
    ELSE "none"

\* what get_binned_exposure returns on instance o
BinnedRet(o, bins) ==
    IF bins.kind = "none" THEN o.exposure
    ELSE IF bins.kind = "int"
         THEN (IF bins.n = 1 THEN o.exposure ELSE Binned(o.exposure, bins.n))
    ELSE o.exposure

\* a mutant of GetBinnedExposure: the result replaces the cached series
GetBinnedExposure_InPlace(i, bins) ==
    /\ last' = Call("get_binned_exposure", i, <<bins>>, BinnedExc(objs[i], bins),
                    IF BinnedExc(objs[i], bins) = "none" THEN BinnedRet(objs[i], bins)
                    ELSE <<>>)
    /\ objs' = IF BinnedExc(objs[i], bins) = "none"
               THEN [objs EXCEPT ![i].exposure = BinnedRet(objs[i], bins)]
               ELSE objs
    /\ UNCHANGED <<data, heap, wm, disk>>

GetBinnedExposure(i, bins) ==
    /\ last' = Call("get_binned_exposure", i, <<bins>>, BinnedExc(objs[i], bins),
                    IF BinnedExc(objs[i], bins) = "none" THEN BinnedRet(objs[i], bins)
                    ELSE <<>>)
    /\ UNCHANGED <<data, heap, objs, wm, disk>>

\* the weighting sources given to the constructor: one, none, or both
ConstructArgs ==
    {<<f, None>> : f \in MapNames} \cup {<<None, m>> : m \in ModelNames}
        \cup {<<None, None>>} \cup {<<f, "modelA">> : f \in {"mapA", "mapB"}}

Next ==
    \/ \E args \in ConstructArgs : Construct(args[1], args[2])
    \/ \E dd \in Checkpoints : Load(dd)
    \/ \E i \in 1..Len(objs), bins \in BinsArgs({2}) : GetBinnedExposure(i, bins)

Spec == Init /\ [][Next]_vars

(***************************************************************************)
(* The loader and get_binned_exposure over exposure series of every length *)
(* up to MaxLen and every bin count up to MaxBins.                          *)
(***************************************************************************)
\* the first len entries of a series of distinct exposures
Series(len) == [j \in 1..len |-> j * j + 1]

ExposureFiles == {Checkpoint(CheckpointKeys, Series(len)) : len \in 0..MaxLen}

InitExposure ==
    /\ heap = <<Table(<<>>)>>
    /\ data = [photon_data |-> 1, verbose |-> 0, nside |-> 2, nest |-> TRUE,
               source_name |-> "src", edges |-> UpstreamEdges,
               exposure |-> UpstreamExposure]
    /\ objs = <<>>
    /\ wm = ModelFiles.modelB.dd
    /\ last = Call("init", 0, <<>>, "none", <<>>)
    /\ disk = NoDisk

NextExposure ==
    \/ \E dd \in ExposureFiles : Load(dd)
    \/ \E i \in 1..Len(objs), bins \in BinsArgs(0..MaxBins) : GetBinnedExposure(i, bins)

SpecExposure == InitExposure /\ [][NextExposure]_vars

(***************************************************************************)
(* A WeightModel object and calls of it.                                   *)
(***************************************************************************)
Coeffs == {NaN, Zero, Frac(1, 10), Frac(1, 2), Frac(9, 10), Frac(3, 2), Frac(-1, 2)}

Triples == {Triple(a, b, c) : a \in Coeffs, b \in Coeffs, c \in Coeffs}

\* a triple other than t, for the bands above 13
Rotated(t) == Triple(t[3], t[1], t[2])

\* the parameter dicts: bands 0..15, or only bands 0..2
ModelDicts ==
    {[i \in 0..15 |-> IF i <= ClampBand THEN t ELSE Rotated(t)] : t \in Triples}
        \cup {[i \in 0..2 |-> t] : t \in {Triple(Frac(3, 4), Frac(1, 2), Frac(1, 4))}}

Radii == {s * s : s \in 0..MaxRoot}

InitEval ==
    /\ heap = <<Table(<<>>)>>
    /\ data = [photon_data |-> 1, verbose |-> 0, nside |-> 2, nest |-> TRUE,
               source_name |-> "src", edges |-> UpstreamEdges,
               exposure |-> UpstreamExposure]
    /\ objs = <<>>
    /\ wm \in ModelDicts
    /\ last = Call("init", 0, <<>>, "none", <<>>)
    /\ disk = NoDisk

\* self(i, r) on the WeightModel object
CallModel(i, r) ==
    /\ last' = Call("evaluate", 0, <<i, r>>, Evaluate(wm, i, r).exc, Evaluate(wm, i, r).val)
    /\ UNCHANGED <<data, heap, objs, wm, disk>>

EvalBands == {0, 12, 13, 14, 15, 16, 40}

NextEval == \E i \in EvalBands, r \in Radii : CallModel(i, r)

SpecEval == InitEval /\ [][NextEval]_vars

(***************************************************************************)
(* create_model_dict(df, outfile): the fit of the model's parameters from a *)
(* photon table with weights.  The loops of its two branches (with and      *)
(* without the plot) compute the same dict.                                 *)
(***************************************************************************)
\* x + y of IEEE floats
FAdd(x, y) ==
    IF IsNaN(x) \/ IsNaN(y) THEN NaN
    ELSE IF x[2] = 0 /\ y[2] = 0 THEN (IF x = y THEN x ELSE NaN)
    ELSE IF x[2] = 0 THEN x
    ELSE IF y[2] = 0 THEN y
    ELSE Frac(x[1] * y[2] + y[1] * x[2], x[2] * y[2])

RECURSIVE FSum(_)
FSum(seq) == IF seq = <<>> THEN Zero ELSE FAdd(Head(seq), FSum(Tail(seq)))

NotNaN(x) == ~IsNaN(x)

\* np.mean of a pandas Series: the mean of its numbers, not-a-number entries
\* skipped; not-a-number when there is none
Mean(ws) ==
    LET v == SelectSeq(ws, NotNaN)
    IN  IF v = <<>> THEN NaN ELSE FDiv(FSum(v), <<Len(v), 1>>)

\* Python's max(iterable): the running maximum m is replaced by x when x > m
RECURSIVE PyMaxFrom(_, _)
PyMaxFrom(m, rest) ==
    IF rest = <<>> THEN m
    ELSE PyMaxFrom(IF FLess(m, Head(rest)) THEN Head(rest) ELSE m, Tail(rest))

PyMax(ws) == PyMaxFrom(Head(ws), Tail(ws))

\* the weight above which a band counts as measured
Threshold == <<1, 1000000>>

\* dfx = df[df.band==i]
BandRows(df, i) == LET InBand(p) == p.band = i IN SelectSeq(df, InBand)

Weights(rows) == [j \in 1..Len(rows) |-> rows[j].weight]

\* len(dfx)>0 and max(dfx.weight)>1e-6
Sufficient(dfx) == Len(dfx) > 0 /\ FLess(Threshold, PyMax(Weights(dfx)))

\* cuts = [r<0.5, np.abs(r-1)<0.2, np.abs(r-4)<0.2], for a whole number r
Cut(k, r) ==
    IF k = 1 THEN 2 * r < 1
    ELSE IF k = 2 THEN 5 * Abs(r - 1) < 1
    ELSE 5 * Abs(r - 4) < 1

\* vals = [np.mean(dfx.weight[cut]) for cut in cuts]
Measured(dfx) ==
    [k \in 1..3 |->
        LET InCut(p) == Cut(k, p.radius)
        IN  Mean(Weights(SelectSeq(dfx, InCut)))]

\* vals when the loop reaches band i: [0]*3 at first, then what the last band
\* below i with enough data measured
RECURSIVE ValsBefore(_, _)
ValsBefore(df, i) ==
    IF i = 0 THEN Triple(Zero, Zero, Zero)
    ELSE IF Sufficient(BandRows(df, i - 1)) THEN Measured(BandRows(df, i - 1))
    ELSE ValsBefore(df, i - 1)

\* for i in range(16)
FitBands == 0..15

\* dd, the dict create_model_dict returns
CreateModelDict(df) ==
    [i \in FitBands |->
        IF Sufficient(BandRows(df, i)) THEN Measured(BandRows(df, i))
        ELSE LET vals == ValsBefore(df, i)
             IN  Triple(vals[1], vals[2],
                        FMul(vals[3], IF i < 4 THEN <<4, 1>> ELSE One))]

\* the photons with weights the fitted tables are made of
FitPool ==
    { [band |-> 0, radius |-> 4, weight |-> Frac(1, 8)],
      [band |-> 0, radius |-> 0, weight |-> NaN],
      [band |-> 1, radius |-> 4, weight |-> Zero],
      [band |-> 2, radius |-> 1, weight |-> Frac(1, 2)],
      [band |-> 3, radius |-> 4, weight |-> Frac(1, 4)],
      [band |-> 5, radius |-> 0, weight |-> Frac(3, 4)] }

\* the photon table of weighted photons q, in time order
FitTable(q) ==
    [j \in 1..Len(q) |->
        [band |-> q[j].band, time |-> j, pixel |-> 17,
         radius |-> q[j].radius, weight |-> q[j].weight]]

InitFit ==
    /\ \E q \in SeqsUpTo(FitPool, MaxFit) : heap = <<FitTable(q)>>
    /\ data = [photon_data |-> 1, verbose |-> 0, nside |-> 2, nest |-> TRUE,
               source_name |-> "src", edges |-> UpstreamEdges,
               exposure |-> UpstreamExposure]
    /\ objs = <<>>
    /\ wm = ModelFiles.modelB.dd
    /\ last = Call("init", 0, <<>>, "none", <<>>)
    /\ disk = NoDisk

\* create_model_dict(df, outfile) on the upstream photon table
Fit(outfile) ==
    LET dd == CreateModelDict(heap[data.photon_data])
    IN  /\ last' = Call("fit", 0, <<outfile>>, "none", dd)
        /\ disk' = IF outfile # None
                   THEN [disk EXCEPT !.model = [exists |-> TRUE, dd |-> dd]]
                   ELSE disk
        /\ UNCHANGED <<data, heap, objs, wm>>

NextFit == \E outfile \in {None, "model"} : Fit(outfile)

SpecFit == InitFit /\ [][NextFit]_vars

(***************************************************************************)
(* WeightedData.dump, and the loader reading the file it wrote.            *)
(***************************************************************************)
\* the columns of the DataFrame that holds row
Columns(row) ==
    {"band", "time", "pixel", "radius"}
        \cup (IF row.weight # Unset THEN {"weight"} ELSE {})

\* photon_data.to_dict('records'): one dict per row, keyed by column
ToRecords(df) ==
    [j \in 1..Len(df) |-> [c \in Columns(df[j]) |-> df[j][c]]]

\* the attributes dump reads before it asks for the exposure
DumpAttrs == {"photon_data", "nside", "nest", "source_name", "edges"}

\* self.edges as the bins argument of get_binned_exposure
EdgesBins == [kind |-> "array", n |-> 0]

\* how dump ends on instance o
DumpExc(o) ==
    IF ~(DumpAttrs \subseteq o.attrs) THEN "AttributeError"
    ELSE BinnedExc(o, EdgesBins)

\* the dict d that dump pickles
Dumped(o) ==
    [exists |-> TRUE, keys |-> CheckpointKeys,
     photon_data |-> ToRecords(PhotonData(o)), nside |-> o.nside, nest |-> o.nest,
     source_name |-> o.source_name, edges |-> o.edges,
     exposure |-> BinnedRet(o, EdgesBins)]

\* objs[i].dump(filename)
Dump(i) ==
    /\ last' = Call("dump", i, <<>>, DumpExc(objs[i]), <<>>)
    /\ disk' = IF DumpExc(objs[i]) = "none"
               THEN [disk EXCEPT !.ckpt = Dumped(objs[i])]
               ELSE disk
    /\ UNCHANGED <<data, heap, objs, wm>>

\* the weighting sources of the constructions whose instances are dumped
DumpedSources == {<<"mapB", None>>, <<None, "modelA">>}

NextCheckpoint ==
    \/ \E args \in DumpedSources : Construct(args[1], args[2])
    \/ \E dd \in Checkpoints : Load(dd)
    \/ Load(disk.ckpt)
    \/ \E i \in 1..Len(objs) : Dump(i)

SpecCheckpoint == Init /\ [][NextCheckpoint]_vars

(***************************************************************************)
(* The downsampling of add_weights_from_skymodel alone: the NEST pixel ids *)
(* of a table at nside 2^k shifted down to the nside of a weight map.       *)
(***************************************************************************)
\* the resolutions: the powers of 2 up to 2^MaxOrder
Nsides == {Pow2(k) : k \in 0..MaxOrder}

InitShift ==
    /\ \E n \in Nsides : \E p \in 0..(12 * n * n - 1) :
          /\ heap = <<Table(<<[band |-> 0, pixel |-> p, radius |-> 0]>>)>>
          /\ data = [photon_data |-> 1, verbose |-> 0, nside |-> n, nest |-> TRUE,
                     source_name |-> "src", edges |-> UpstreamEdges,
                     exposure |-> UpstreamExposure]
    /\ objs = <<>>
    /\ wm = ModelFiles.modelB.dd
    /\ last = Call("init", 0, <<>>, "none", <<>>)
    /\ disk = NoDisk

\* shifted_pix = np.right_shift(photon_pix, to_shift), a new array, for a
\* weight map of resolution nside_wt
Downsample(nside_wt) ==
    LET photons == heap[data.photon_data]
    IN  /\ last' = Call("right_shift", 0, <<nside_wt>>, "none",
                        [j \in 1..Len(photons) |->
                            ShiftedPix(data.nside, data.nest, nside_wt, photons[j].pixel)])
        /\ UNCHANGED <<data, heap, objs, wm, disk>>

NextShift == \E nside_wt \in {n \in Nsides : n <= data.nside} : Downsample(nside_wt)

SpecShift == InitShift /\ [][NextShift]_vars

(***************************************************************************)
(* Properties.                                                             *)
(***************************************************************************)
\* the last call was a construction
Constructing == last.op = "construct"

\* the last call was a construction that returned an instance
Constructed == last.op = "construct" /\ last.exc = "none"

\* the last call was a construction that ran the sky-model lookup to its end
LookupDone == Constructed /\ last.args[1] # None

\* the photon table of the instance the last call made
NewTable == PhotonData(objs[last.obj])

\* the weight map the last construction read
TheMap == MapFiles[last.args[1]]

\* the NEST ancestor of photon p's pixel at the resolution of map wtd
Ancestor(p, wtd) ==
    (IF data.nest THEN p.pixel ELSE Ring2Nest(data.nside, p.pixel))
        \div ((data.nside \div wtd.nside) * (data.nside \div wtd.nside))

InRegion(p, wtd) == \E k \in 1..Len(wtd.pixels) : wtd.pixels[k] = Ancestor(p, wtd)

\* the column of the table that pixel id pix of the pixel list owns
ColumnOf(pix, wtd) == CHOOSE k \in 1..Len(wtd.pixels) : wtd.pixels[k] = pix

C2_LookupWeights ==
    LookupDone =>
        \A j \in 1..Len(NewTable) :
            LET p == NewTable[j]
            IN  IF InRegion(p, TheMap)
                THEN p.band <= LastBand
                        => p.weight = Wts(TheMap)[p.band][ColumnOf(Ancestor(p, TheMap), TheMap)]
                ELSE p.weight = NaN

\* C2: a lookup has weighted a table with a photon inside the region, whose
\* weight is a number, and a photon outside it
C2_Witness ==
    /\ LookupDone
    /\ \E j \in 1..Len(NewTable) :
          /\ InRegion(NewTable[j], TheMap)
          /\ NewTable[j].band <= LastBand
          /\ ~IsNaN(NewTable[j].weight)
    /\ \E j \in 1..Len(NewTable) : ~InRegion(NewTable[j], TheMap)

\* the last call looked photons up in a map file that was read
LookedUp ==
    /\ Constructing /\ last.args[1] # None
    /\ last.exc \notin {"AssertionError", "KeyError"}

\* C3: the lookup fails with "No weights found" if every photon of the table
\* is outside the weight region, and does not if one is inside
C3_NoWeightsFound ==
    LookedUp =>
        LET table == heap[data.photon_data]
        IN  last.exc = "No weights found"
                <=> \A j \in 1..Len(table) : ~InRegion(table[j], TheMap)

\* C3: a lookup of a table of photons all outside the region has failed
C3_Witness ==
    /\ LookedUp
    /\ Len(heap[data.photon_data]) > 0
    /\ last.exc = "No weights found"

Binning == last.op = "get_binned_exposure"

\* C5: on an instance constructed from a map file or a model,
\* get_binned_exposure(None) returns the exposure series of the upstream dataset
C5_ExposureSnapshot ==
    (Binning /\ objs[last.obj].cls = "WeightedData" /\ last.args[1].kind = "none")
        => last.exc = "none" /\ last.ret = data.exposure

\* C6: a construction from a model leaves every photon with the weight
\* evaluate(band, radius), at every verbosity
C6_ModelWeights ==
    (Constructed /\ last.args[1] = None)
        => \A j \in 1..Len(NewTable) :
              NewTable[j].weight
                 = Evaluate(ModelFiles[last.args[2]].dd, NewTable[j].band,
                            NewTable[j].radius).val

\* the cached series of the instance the last call acted on
Cached == objs[last.obj].exposure

\* C7: for a bin count n > 1, get_binned_exposure(n) returns Len(e) \div n
\* entries, the k-th the sum of entries (k-1)*n+1 .. k*n of the cached series
\* e; the trailing Len(e) % n entries are left out
C7_BinnedSums ==
    (Binning /\ last.args[1].kind = "int" /\ last.args[1].n > 1)
        => LET n == last.args[1].n
               groups == Len(Cached) \div n
           IN  /\ last.exc = "none"
               /\ Len(last.ret) = groups
               /\ \A k \in 1..groups :
                     last.ret[k] = SumSeq(SubSeq(Cached, (k - 1) * n + 1, k * n))
               /\ SumSeq(last.ret) = SumSeq(SubSeq(Cached, 1, groups * n))

\* C7: a series has been binned into two or more groups with a remainder left out
C7_Witness ==
    /\ Binning /\ last.args[1].kind = "int" /\ last.args[1].n > 1
    /\ Len(Cached) % last.args[1].n # 0
    /\ Len(last.ret) >= 2

\* C8: get_binned_exposure(None) and get_binned_exposure(1) return the cached
\* series itself, and no call of get_binned_exposure changes an instance
C8_CachedExposure ==
    /\ []((Binning /\ (last.args[1].kind = "none"
                        \/ (last.args[1].kind = "int" /\ last.args[1].n = 1)))
            => last.exc = "none" /\ last.ret = Cached)
    /\ [][last'.op = "get_binned_exposure" => objs' = objs]_vars

\* C8: the full series has been returned for bin count 1 by an instance that
\* holds a series of two or more entries
C8_Witness ==
    /\ Binning /\ last.args[1].kind = "int" /\ last.args[1].n = 1
    /\ Len(Cached) >= 2
    /\ last.ret = Cached

\* C9: after a successful lookup a photon of a band above 31 inside the region
\* has the weight the table stores for band 31 at its downsampled pixel (NaN if
\* band 31 has no weights, or outside the region); a photon of band 0..31 has
\* that of its own band
C9_LastBand ==
    LookupDone =>
        \A j \in 1..Len(NewTable) :
            LET p == NewTable[j]
                row == IF p.band > LastBand THEN LastBand ELSE p.band
                stored == IF row \in DOMAIN TheMap.weights
                          THEN Float32(BandRow(TheMap.weights[row])
                                          [ColumnOf(Ancestor(p, TheMap), TheMap)])
                          ELSE NaN
            IN  p.weight = IF InRegion(p, TheMap) THEN stored ELSE NaN

\* C9: a photon of band 40 inside the region has got a number as its weight
C9_Witness ==
    /\ LookupDone
    /\ \E j \in 1..Len(NewTable) :
          /\ NewTable[j].band > LastBand
          /\ InRegion(NewTable[j], TheMap)
          /\ ~IsNaN(NewTable[j].weight)

\* the last call was a call of the WeightModel object
Evaluated == last.op = "evaluate"

\* C10: for a radius above 1 what the model returns never exceeds 0.99
C10_Below099 ==
    (Evaluated /\ last.args[2] > 1 /\ last.exc = "none") => ~FLess(MaxWeight, last.ret)

\* C10: the model has returned 0.99 for a radius above 1 from a triple of
\* positive numbers
C10_Witness ==
    /\ Evaluated /\ last.args[2] > 1 /\ last.exc = "none"
    /\ last.ret = MaxWeight
    /\ \A k \in 1..3 : FLess(Zero, wm[ModelBand(last.args[1])][k])

\* the triple the last call of the model used: that of band min(i,13)
UsedTriple == wm[IF last.args[1] > ClampBand THEN ClampBand ELSE last.args[1]]

\* C11, as stated: evaluate(i, 0) is the first coefficient of band i's own
\* triple, for every band that has one and every triple
C11_OwnFirstCoefficient ==
    (Evaluated /\ last.args[2] = 0 /\ last.args[1] \in DOMAIN wm)
        => last.exc = "none" /\ last.ret = wm[last.args[1]][1]

\* C11, amended: evaluate(i, 0) is 0 when the third coefficient of the triple
\* of band min(i,13) is 0; otherwise it is the first coefficient a of that
\* triple when b/a is a positive number, and not-a-number when it is not
C11_FirstCoefficient ==
    (Evaluated /\ last.args[2] = 0 /\ last.exc = "none")
        => LET a == UsedTriple[1]
               b == UsedTriple[2]
               c == UsedTriple[3]
           IN  IF c = Zero THEN last.ret = Zero
               ELSE IF IsFinite(FDiv(b, a)) /\ FLess(Zero, FDiv(b, a))
                    THEN last.ret = a
               ELSE IsNaN(last.ret)

\* C11: the model has returned, at radius 0 for band 14, the first coefficient
\* of band 13's triple, which is not that of band 14's own triple
C11_Witness ==
    /\ Evaluated /\ last.args[2] = 0 /\ last.exc = "none"
    /\ last.args[1] = 14 /\ 14 \in DOMAIN wm
    /\ UsedTriple[3] # Zero
    /\ last.ret = wm[13][1]
    /\ last.ret # wm[14][1]

\* the highest band of the parameter dict
Highest(dd) == CHOOSE h \in DOMAIN dd : \A k \in DOMAIN dd : k <= h

\* C12: a call for a band above the highest band of the dict does not fail
\* and returns what the call for the highest band returns at that radius
C12_ClampToHighest ==
    (Evaluated /\ last.args[1] > Highest(wm))
        => /\ last.exc = "none"
           /\ last.ret = Evaluate(wm, Highest(wm), last.args[2]).val

\* C13: with a dict that holds band 13, a call for a band of 14 or above
\* returns, at every radius, what the call for band 13 returns, also when the
\* dict holds triples of its own for bands 14 and 15
C13_SameAsBand13 ==
    (Evaluated /\ 13 \in DOMAIN wm /\ last.args[1] >= 14)
        => LET a == wm[13][1]
               b == wm[13][2]
               c == wm[13][3]
               r == last.args[2]
               band13 == IF c = Zero THEN Zero
                         ELSE IF r <= 1 THEN FMul(a, ExpLogTimes(FDiv(b, a), Sqrt(r)))
                         ELSE PyMin(MaxWeight,
                                    FMul(FDiv(FMul(b, b), c),
                                         ExpLogTimes(FDiv(c, b), Sqrt(r))))
           IN  last.exc = "none" /\ last.ret = band13

\* C13: band 15 has returned band 13's value, a number, at a radius above 1,
\* where band 15's own triple gives another value
C13_Witness ==
    /\ Evaluated /\ 13 \in DOMAIN wm /\ last.args[1] = 15 /\ last.args[2] > 1
    /\ last.exc = "none" /\ IsFinite(last.ret) /\ last.ret # MaxWeight
    /\ LET b == wm[15][2]
           c == wm[15][3]
       IN  /\ c # Zero
           /\ last.ret # PyMin(MaxWeight, FMul(FDiv(FMul(b, b), c),
                                               ExpLogTimes(FDiv(c, b), Sqrt(last.args[2]))))

\* the last call was a fit
Fitted == last.op = "fit"

\* the fitted table has no photon of band i with a weight above 1e-6
NoWeightAbove(i) ==
    LET df == heap[data.photon_data]
    IN  \A j \in 1..Len(df) : df[j].band = i => ~FLess(Threshold, df[j].weight)

\* C14: the fit returns a triple for each of the bands 0..15; a band with no
\* photon of weight above 1e-6 gets (0, 0, 0) if it is band 0, and otherwise
\* the (a, b) of the triple the band before it was given and that triple's c,
\* times 4 if the band is below 4
C14_FallbackFromPreviousBand ==
    Fitted =>
        /\ DOMAIN last.ret = 0..15
        /\ \A i \in 0..15 :
              NoWeightAbove(i) =>
                 last.ret[i] =
                    IF i = 0 THEN Triple(Zero, Zero, Zero)
                    ELSE Triple(last.ret[i - 1][1], last.ret[i - 1][2],
                                FMul(last.ret[i - 1][3],
                                     IF i < 4 THEN <<4, 1>> ELSE One))

\* the last call was a dump
Dumping == last.op = "dump"

\* C15: dump succeeds on every instance, and the loader given the file a dump
\* wrote makes an instance with the dumped instance's photon records, in the
\* same order and with the same weights, and its nside, nest, source_name,
\* edges and exposure
C15_RoundTrip ==
    /\ [](Dumping => last.exc = "none")
    /\ [][(last'.op = "dump" /\ last'.exc = "none")
             => LET o == objs[last'.obj]
                    x == NewWeightedDataX(disk'.ckpt)
                IN  /\ LoadExc(disk'.ckpt) = "none"
                    /\ FromDict(disk'.ckpt.photon_data) = PhotonData(o)
                    /\ CheckpointKeys \subseteq x.attrs
                    /\ x.nside = o.nside /\ x.nest = o.nest
                    /\ x.source_name = o.source_name
                    /\ x.edges = o.edges /\ x.exposure = o.exposure]_vars

\* the last call was a call of the loader
Loading == last.op = "load"

\* C16: the loader fails when the pickled dict lacks one of the six keys, and
\* no instance it made lacks one of the six attributes
C16_MissingKeyFails ==
    /\ (Loading /\ ~(CheckpointKeys \subseteq last.args[1].keys)) => last.exc # "none"
    /\ \A i \in 1..Len(objs) :
          objs[i].cls = "WeightedDataX" => CheckpointKeys \subseteq objs[i].attrs

\* the last call downsampled the pixel ids of the table
Downsampled == last.op = "right_shift"

\* C17: the pixel id shifted down from nside n to nside m in one step is the
\* id shifted down from n to any resolution between them and from there to m,
\* and it is the whole-number quotient of the id by (n/m)^2
C17_ShiftsCompose ==
    Downsampled =>
        LET n == data.nside
            m == last.args[1]
            table == heap[data.photon_data]
        IN  \A j \in 1..Len(table) :
               /\ last.ret[j] = table[j].pixel \div ((n \div m) * (n \div m))
               /\ \A mid \in {k \in Nsides : m <= k /\ k <= n} :
                     RightShift(RightShift(table[j].pixel, ToShift(n, mid)),
                                ToShift(mid, m)) = last.ret[j]

\* C17: a pixel id has been shifted down two or more levels, with bits
\* dropped at each of the two steps through the resolution between
C17_Witness ==
    /\ Downsampled
    /\ data.nside = 8 /\ last.args[1] = 2
    /\ heap[data.photon_data][1].pixel % 4 # 0
    /\ (heap[data.photon_data][1].pixel \div 4) % 4 # 0
    /\ last.ret[1] > 0

\* C18: a construction, whether it looks the weights up in a map or evaluates
\* a model, leaves every photon table with the records it had, in the order
\* they had, each with its band, time, pixel and radius; only weights change
C18_OnlyWeightColumn ==
    [][last'.op = "construct"
          => /\ Len(heap') = Len(heap)
             /\ \A k \in 1..Len(heap) :
                   /\ Len(heap'[k]) = Len(heap[k])
                   /\ \A j \in 1..Len(heap[k]) :
                         /\ heap'[k][j].band = heap[k][j].band
                         /\ heap'[k][j].time = heap[k][j].time
                         /\ heap'[k][j].pixel = heap[k][j].pixel
                         /\ heap'[k][j].radius = heap[k][j].radius]_vars

\* C18: a lookup has weighted a table of two photons, the first outside the
\* region (its index set to the sentinel, its weight not-a-number) and the
\* second inside with a number; both are in place with their own pixel ids
C18_Witness ==
    /\ LookupDone
    /\ Len(NewTable) = 2
    /\ Bad(data.nside, data.nest, TheMap, NewTable[1].pixel)
    /\ NewTable[1].pixel # Sentinel(TheMap.nside)
    /\ NewTable[1].pixel \in {p.pixel : p \in PhotonPool}
    /\ IsNaN(NewTable[1].weight)
    /\ NewTable[1].time = 1 /\ NewTable[2].time = 2
    /\ ~Bad(data.nside, data.nest, TheMap, NewTable[2].pixel)
    /\ IsFinite(NewTable[2].weight)

====
